---- MODULE Spec2Model ----
(***************************************************************************)
(* Task/phase data store of Bruce: src/src/task_manager.py (TaskManager)   *)
(* and the commands of src/cli/hdw-task.py that write the same files.      *)
(*                                                                         *)
(* A YAML mapping is a function from key strings to values; a key that is  *)
(* absent from the mapping is absent from the function's DOMAIN.  A YAML   *)
(* list is a sequence.  The file system is a set of existing paths with    *)
(* their parsed contents.                                                  *)
(***************************************************************************)
EXTENDS Integers, Sequences, FiniteSets, TLC

VARIABLES
    tasks_file,   \* <<>> when tasks.yaml is absent, else <<its content>>
    phases_dir,   \* existing phases/phase*_*.yml files: name -> content
    contexts_dir, \* existing contexts/phase<P>/context_<T>.md, as <<P, T>>
    old_contexts, \* ids T whose .task_context_<T>.md exists in project_root
    clock,        \* datetime.now(), counted in the operations that wrote a file
    horizon,      \* the number of writing operations a run is followed for
    last,         \* the operation that ran last and what it returned
    proc,         \* the position of each concurrent save_task_updates call
    sources       \* the files a context reference can name: path -> its lines

vars == <<tasks_file, phases_dir, contexts_dir, old_contexts, clock, horizon, last, proc,
          sources>>

----------------------------------------------------------------------------
(* Bounds and input sets                                                   *)

\* a run of the single-operator system holds at most MaxClock operations that
\* write a file
MaxClock == 2

\* the lifecycle of one task is followed for MaxDeep writing operations
MaxDeep == 4

TaskIds == {"t1", "t2"}

PhaseIds == <<0, 1, 2>>

SafeNames == <<"build", "setup">>

Procs == {"p1", "p2"}

----------------------------------------------------------------------------
(* Mappings                                                                *)

Get(d, k, default) == IF k \in DOMAIN d THEN d[k] ELSE default

\* dict.update: the keys of u replace those of d
Update(d, u) == u @@ d

\* {k: v for k, v in d.items() if k not in ks}
Without(d, ks) == [k \in DOMAIN d \ ks |-> d[k]]

Range(s) == {s[i] : i \in DOMAIN s}

RECURSIVE Concat(_)
Concat(ss) == IF ss = <<>> THEN <<>> ELSE Head(ss) \o Concat(Tail(ss))

\* the index of the first element of s with the id, 0 when there is none
FirstIndex(s, id) ==
    IF \E i \in DOMAIN s : s[i]["id"] = id
    THEN CHOOSE i \in DOMAIN s :
            /\ s[i]["id"] = id
            /\ \A j \in 1..(i - 1) : s[j]["id"] # id
    ELSE 0

----------------------------------------------------------------------------
(* File names                                                              *)

\* f"phase{id}_{safe_name}.yml"
PhaseFileName(id, safe) == "phase" \o ToString(id) \o "_" \o safe \o ".yml"

\* every phase file name of the model with its number token, in sorted() order
PhaseFileTable ==
    [k \in 1..(Len(PhaseIds) * Len(SafeNames)) |->
        LET id == PhaseIds[((k - 1) \div Len(SafeNames)) + 1]
            safe == SafeNames[((k - 1) % Len(SafeNames)) + 1]
        IN  [name |-> PhaseFileName(id, safe), num |-> id]]

PhaseFileOrder == [k \in DOMAIN PhaseFileTable |-> PhaseFileTable[k].name]

\* the number token of a file name, as glob(f"phase{phase_id}_*.yml") reads it
NumToken(name) ==
    PhaseFileTable[CHOOSE k \in DOMAIN PhaseFileTable : PhaseFileTable[k].name = name].num

\* sorted(self.phases_dir.glob("phase*_*.yml"))
SortedPhaseFiles(pd) == SelectSeq(PhaseFileOrder, LAMBDA n : n \in DOMAIN pd)

----------------------------------------------------------------------------
(* TaskManager.load_tasks                                                  *)

\* a load that forgets the default phase of a legacy task
LegacyStampForgotten(task) == task

\* "if 'phase' not in task: task['phase'] = 0"
LegacyStamp(task) == IF "phase" \in DOMAIN task THEN task ELSE Update(task, [phase |-> 0])

\* the content of a file that open() or yaml.safe_load() raises on
Unparsable == [unparsable |-> TRUE]

\* an element of a tasks list that is a YAML scalar and no mapping
Scalar == [scalar |-> "junk"]

\* a YAML list written where a phase id is expected
ListId == <<1>>

Parses(data) == "unparsable" \notin DOMAIN data

IsMapping(task) == "scalar" \notin DOMAIN task

\* a list is not hashable: using it as a dictionary key raises TypeError
Unhashable(value) == ToString(value) = ToString(ListId)

\* the "try:" of the legacy file raises: at the read, or at task["phase"] = 0
\* on an element that is no mapping, before all_tasks is extended
LegacyRaises(data) ==
    \/ ~Parses(data)
    \/ \E i \in DOMAIN data["tasks"] : ~IsMapping(data["tasks"][i])

LoadLegacy(tf) ==
    IF tf = <<>> THEN <<>>
    ELSE IF LegacyRaises(tf[1]) THEN <<>>
    ELSE [i \in DOMAIN tf[1]["tasks"] |-> LegacyStamp(tf[1]["tasks"][i])]

\* task["phase"], task["phase_name"], task["phase_file"] = ...
PhaseStamp(task, name, data) ==
    Update(task, [phase |-> data["phase"]["id"],
                  phase_name |-> data["phase"]["name"],
                  phase_file |-> name])

\* the "try:" of a phase file raises before all_tasks is extended: at the
\* read, or at task["phase"] = phase_id on an element that is no mapping
PhaseRaisesEarly(data) ==
    \/ ~Parses(data)
    \/ \E i \in DOMAIN data["tasks"] : ~IsMapping(data["tasks"][i])

\* the "try:" of a phase file raises at all_tasks["phases"][phase_id] = ...,
\* after all_tasks was extended by the tasks of the file
PhaseRaisesLate(data) == ~PhaseRaisesEarly(data) /\ Unhashable(data["phase"]["id"])

LoadPhaseFile(name, data) ==
    IF PhaseRaisesEarly(data) THEN <<>>
    ELSE [i \in DOMAIN data["tasks"] |-> PhaseStamp(data["tasks"][i], name, data)]

\* all_tasks["tasks"]: the legacy tasks, then each phase file's in sorted order
LoadTasks(tf, pd) ==
    LET names == SortedPhaseFiles(pd)
    IN  LoadLegacy(tf) \o Concat([k \in DOMAIN names |-> LoadPhaseFile(names[k], pd[names[k]])])

\* all_tasks["phases"]
LoadPhases(pd) ==
    LET entered == {n \in DOMAIN pd : ~PhaseRaisesEarly(pd[n]) /\ ~PhaseRaisesLate(pd[n])}
        ids == {pd[n]["phase"]["id"] : n \in entered}
        names == SelectSeq(SortedPhaseFiles(pd), LAMBDA n : n \in entered)
        \* a later file with the same phase id overwrites the entry
        lastOf(id) == names[CHOOSE k \in DOMAIN names :
                            /\ pd[names[k]]["phase"]["id"] = id
                            /\ \A j \in (k + 1)..Len(names) : pd[names[j]]["phase"]["id"] # id]
    IN  [id \in ids |->
            [name |-> pd[lastOf(id)]["phase"]["name"],
             description |-> pd[lastOf(id)]["phase"]["description"],
             file |-> lastOf(id),
             task_count |-> Len(pd[lastOf(id)]["tasks"])]]

----------------------------------------------------------------------------
(* TaskManager.get_phase_progress                                          *)

\* a fresh entry of phase_progress
ProgressEntry(name) ==
    [name |-> name, total |-> 0, completed |-> 0, in_progress |-> 0, pending |-> 0,
     blocked |-> 0]

\* "phase_progress[phase][status] += 1" raises TypeError when the status is
\* "name", the one key of an entry that holds a string, and the lookup of a
\* phase that is a list raises TypeError
ProgressRaises(tasks) ==
    \E i \in DOMAIN tasks :
        \/ Unhashable(Get(tasks[i], "phase", 0))  \* "if phase not in phase_progress"
        \/ Get(tasks[i], "status", "pending") = "name"

\* one pass of "for task in tasks_data.get('tasks', [])".  The entry's keys at
\* this point are name, total and the four counters; a status equal to one of
\* them increments it (the status "name" raises, see ProgressRaises).
CountTask(progress, task) ==
    LET phase == Get(task, "phase", 0)
        known == IF phase \in DOMAIN progress THEN progress
                 ELSE progress @@ (phase :> ProgressEntry("Legacy Tasks"))
        counted == [known[phase] EXCEPT !["total"] = @ + 1]
        status == Get(task, "status", "pending")
    IN  [known EXCEPT ![phase] =
            IF status \in DOMAIN counted \ {"name"} THEN [counted EXCEPT ![status] = @ + 1]
            ELSE counted]

RECURSIVE CountTasks(_, _)
CountTasks(progress, tasks) ==
    IF tasks = <<>> THEN progress
    ELSE IF Get(Head(tasks), "phase", 0) \in DOMAIN progress
    THEN CountTasks(CountTask(progress, Head(tasks)), Tail(tasks))
    ELSE \* "if phase not in phase_progress": the entry is created in this pass
         CountTasks(CountTask(progress @@ (Get(Head(tasks), "phase", 0) :>
                                              ProgressEntry("Legacy Tasks")),
                              Head(tasks)),
                    Tail(tasks))

\* The whole numbers n for which the double product (n / 100) * 100 is below
\* n: 0.29 * 100 is 28.999999999999996, 0.57 * 100 is 56.99999999999999 and
\* 0.58 * 100 is 57.99999999999999.
TruncatedPercents == {29, 57, 58}

\* int((completed / total) * 100) in double arithmetic.  The division is
\* correctly rounded, so the product depends on the ratio alone; it falls
\* below the exact value, and int() drops to the whole number below, only for
\* the ratios of TruncatedPercents.
Percentage(progress) ==
    IF progress["total"] > 0
    THEN LET exact == (progress["completed"] * 100) \div progress["total"]
         IN  IF (progress["completed"] * 100) % progress["total"] = 0
                 /\ exact \in TruncatedPercents
             THEN exact - 1
             ELSE exact
    ELSE 0

GetPhaseProgress(tf, pd) ==
    LET phases == LoadPhases(pd)
        counted == CountTasks([id \in DOMAIN phases |-> ProgressEntry(phases[id]["name"])],
                              LoadTasks(tf, pd))
    IN  [id \in DOMAIN counted |->
            counted[id] @@ [percentage |-> Percentage(counted[id])]]

----------------------------------------------------------------------------
(* TaskManager.save_task_updates                                           *)

StampKeys == {"phase", "phase_name", "phase_file"}

LegacyStampKeys == {"phase_name", "phase_file"}

\* a write that keeps the stamps of load_tasks
CleanPhaseTaskStamped(updated_task) == updated_task

\* clean_task of _update_phase_file
CleanPhaseTask(updated_task) == Without(updated_task, StampKeys)

\* clean_task of _update_legacy_tasks
CleanLegacyTask(updated_task) == Without(updated_task, LegacyStampKeys)

\* the task list of a file after "tasks[i] = clean_task; break" on the first
\* record with the id; unchanged when no record has it
ReplaceFirst(tasks, task_id, clean_task) ==
    LET i == FirstIndex(tasks, task_id)
    IN  IF i = 0 THEN tasks ELSE [tasks EXCEPT ![i] = clean_task]

\* an update that writes the updated task as the file's only task
UpdatePhaseFileAlone(phase_data, task_id, updated_task) ==
    [phase_data EXCEPT !["tasks"] = <<CleanPhaseTask(updated_task)>>]

\* what _update_phase_file writes, given the phase_data it has read
UpdatePhaseFile(phase_data, task_id, updated_task) ==
    [phase_data EXCEPT !["tasks"] = ReplaceFirst(@, task_id, CleanPhaseTask(updated_task))]

\* what _update_legacy_tasks writes, given the tasks_data it has read
UpdateLegacyTasks(tasks_data, task_id, updated_task) ==
    [tasks_data EXCEPT !["tasks"] = ReplaceFirst(@, task_id, CleanLegacyTask(updated_task))]

\* "if task.get('phase_file')": the key is present and not empty
HasPhaseFile(task) == "phase_file" \in DOMAIN task /\ task["phase_file"] # ""

\* a save that adds a record to tasks.yaml for an id it did not find
SaveTaskUpdatesOrInsert(tf, pd, task_id, updates) ==
    IF FirstIndex(LoadTasks(tf, pd), task_id) = 0
    THEN [tf |-> <<[tasks |-> (IF tf = <<>> THEN <<>> ELSE tf[1]["tasks"])
                              \o <<Update([id |-> task_id], updates)>>]>>,
          pd |-> pd]
    ELSE [tf |-> tf, pd |-> pd]

\* a save that applies the updates to every stored record with the id
SaveTaskUpdatesEvery(tf, pd, task_id, updates) ==
    LET every(tasks) == [k \in DOMAIN tasks |->
                            IF tasks[k]["id"] = task_id THEN Update(tasks[k], updates)
                            ELSE tasks[k]]
    IN  [tf |-> IF tf = <<>> THEN tf ELSE <<[tasks |-> every(tf[1]["tasks"])]>>,
         pd |-> [n \in DOMAIN pd |-> [pd[n] EXCEPT !["tasks"] = every(@)]]]

\* a save to a phase file that also writes tasks.yaml back as it was loaded
SaveTaskUpdatesAndLegacy(tf, pd, task_id, updates) ==
    LET tasks == LoadTasks(tf, pd)
        i == FirstIndex(tasks, task_id)
        task == Update(tasks[i], updates)
    IN  IF i = 0 THEN [tf |-> tf, pd |-> pd]
        ELSE IF HasPhaseFile(task)
        THEN [tf |-> IF tf = <<>> THEN tf ELSE <<[tasks |-> LoadLegacy(tf)]>>,
              pd |-> [pd EXCEPT ![task["phase_file"]] = UpdatePhaseFile(@, task_id, task)]]
        ELSE [tf |-> <<UpdateLegacyTasks(tf[1], task_id, task)>>, pd |-> pd]

\* The files after save_task_updates(task_id, updates) ran alone.  An open()
\* of a file that does not exist raises and nothing is written.
SaveTaskUpdates(tf, pd, task_id, updates) ==
    LET tasks == LoadTasks(tf, pd)
        i == FirstIndex(tasks, task_id)
        task == Update(tasks[i], updates)
    IN  IF i = 0 THEN [tf |-> tf, pd |-> pd]
        ELSE IF HasPhaseFile(task)
        THEN IF task["phase_file"] \in DOMAIN pd
             THEN [tf |-> tf,
                   pd |-> [pd EXCEPT ![task["phase_file"]] =
                              UpdatePhaseFile(@, task_id, task)]]
             ELSE [tf |-> tf, pd |-> pd]
        ELSE IF tf # <<>>
             THEN [tf |-> <<UpdateLegacyTasks(tf[1], task_id, task)>>, pd |-> pd]
             ELSE [tf |-> tf, pd |-> pd]

----------------------------------------------------------------------------
(* TaskManager.get_context                                                 *)

\* A line of a source file: a def or class statement with its name and its
\* indentation, other text with its indentation, or a line that strip() empties.
DefLine(name, indent) == [kind |-> "def", name |-> name, indent |-> indent]

TextLine(text, indent) == [kind |-> "text", text |-> text, indent |-> indent]

BlankLine == [kind |-> "blank"]

\* f"def {section}" in line or f"class {section}" in line
Mentions(line, section) == line["kind"] \in {"def", "class"} /\ line["name"] = section

\* line.startswith('def ') or line.startswith('class ')
StartsDefinition(line) == line["kind"] \in {"def", "class"} /\ line["indent"] = 0

\* A context reference: a path, with a section when it is written path#section.
HasSection(ref) == "section" \in DOMAIN ref

\* the reference as the task record spells it
RefText(ref) == IF HasSection(ref) THEN ref["path"] \o "#" \o ref["section"] ELSE ref["path"]

\* the locations tried in order, each built from the whole reference text:
\* project_root / path, docs_dir / path, src_dir / path (Path(path) is the
\* first again when the command runs in the project root)
Locations(ref) == <<RefText(ref), "docs/" \o RefText(ref), "src/" \o RefText(ref)>>

\* section_content of the "for line in lines" loop: a line that mentions the
\* section opens it, a def or class statement at column 0 ends the loop once
\* the section is open, and every other line of an open section is appended
RECURSIVE SectionContent(_, _, _)
SectionContent(lines, section, in_section) ==
    IF lines = <<>> THEN <<>>
    ELSE IF Mentions(Head(lines), section)
    THEN <<Head(lines)>> \o SectionContent(Tail(lines), section, TRUE)
    ELSE IF in_section /\ StartsDefinition(Head(lines)) THEN <<>>
    ELSE IF in_section THEN <<Head(lines)>> \o SectionContent(Tail(lines), section, TRUE)
    ELSE SectionContent(Tail(lines), section, FALSE)

\* what get_context appends for one reference: the block under
\* "=== path ===", or the marker "=== path (NOT FOUND) ==="
ContextOf(src, ref) ==
    LET tried == Locations(ref)
        hits == {k \in DOMAIN tried : tried[k] \in DOMAIN src}
        first == CHOOSE k \in hits : \A j \in hits : k <= j
        lines == src[tried[first]]
        section_content == SectionContent(lines, ref["section"], FALSE)
    IN  IF hits = {} THEN [path |-> RefText(ref), found |-> FALSE]
        ELSE [path |-> RefText(ref),
              found |-> TRUE,
              content |-> IF HasSection(ref) /\ section_content # <<>>
                          THEN section_content
                          ELSE lines]

\* a get_context that gives up at the first reference it cannot resolve
GetContextUntilMissing(src, context_paths) ==
    LET missing == {k \in DOMAIN context_paths : ~ContextOf(src, context_paths[k])["found"]}
        upto == IF missing = {} THEN Len(context_paths)
                ELSE (CHOOSE k \in missing : \A j \in missing : k <= j) - 1
    IN  [k \in 1..upto |-> ContextOf(src, context_paths[k])]

\* get_context(context_paths): one block or marker per reference, in order
GetContext(src, context_paths) ==
    [k \in DOMAIN context_paths |-> ContextOf(src, context_paths[k])]

----------------------------------------------------------------------------
(* Lifecycle operations                                                    *)

Note(ts, text) == [timestamp |-> ts, note |-> text]

\* updates whose notes hold the new note alone
StatusUpdatesFreshNotes(task, status, ts, text) ==
    [status |-> status, updated |-> ts, notes |-> <<Note(ts, text)>>]

\* updates whose notes hold the new note before the earlier ones
StatusUpdatesNoteFirst(task, status, ts, text) ==
    [status |-> status,
     updated |-> ts,
     notes |-> <<Note(ts, text)>> \o Get(task, "notes", <<>>)]

\* the updates cmd_start, cmd_commit_enhanced and cmd_block_enhanced build
StatusUpdates(task, status, ts, text) ==
    [status |-> status,
     updated |-> ts,
     notes |-> Append(Get(task, "notes", <<>>), Note(ts, text))]

\* a context document named after the number of notes of the task
ContextFileByNotes(task, task_id) == <<Len(Get(task, "notes", <<>>)) + 10, task_id>>

\* self.contexts_dir / f"phase{task.get('phase', 0)}" / f"context_{task_id}.md"
ContextFile(task, task_id) == <<Get(task, "phase", 0), task_id>>

\* what cmd_start writes to the context document: the header fields and,
\* under "## Context Documentation:", the blocks of get_context (none, and the
\* sentence "No context files specified.", when the task names no context)
ContextDocument(src, task, task_id) ==
    [task_id |-> task_id,
     phase |-> Get(task, "phase", 0),
     phase_name |-> Get(task, "phase_name", "Legacy"),
     description |-> task["description"],
     output |-> Get(task, "output", "Not specified"),
     context |-> GetContext(src, Get(task, "context", <<>>))]

Idle == [pc |-> "idle"]

NoProc == [p \in Procs |-> Idle]

NoArgs == [none |-> TRUE]

\* a project with no file that a context reference names
NoSources == [path \in {} |-> <<>>]

\* the record of an operation: its name, its task id, whether the id was
\* found, whether it raised, its other arguments, how the git invocation ended
Op(name, id, found, raised, args, git) ==
    [op |-> name, id |-> id, found |-> found, raised |-> raised, args |-> args, git |-> git]

\* TaskManager.cmd_start(task_id)
CmdStart(task_id) ==
    LET tasks == LoadTasks(tasks_file, phases_dir)
        i == FirstIndex(tasks, task_id)
        task == tasks[i]
        saved == SaveTaskUpdates(tasks_file, phases_dir, task_id,
                                 StatusUpdates(task, "in-progress", clock, "Task started"))
    IN  IF i = 0
        THEN /\ last' = Op("start", task_id, FALSE, FALSE, NoArgs, "none")
             /\ UNCHANGED <<tasks_file, phases_dir, contexts_dir, old_contexts, clock, horizon,
                            sources, proc>>
        ELSE /\ clock < horizon
             /\ clock' = clock + 1
             /\ tasks_file' = saved.tf
             /\ phases_dir' = saved.pd
             /\ contexts_dir' = contexts_dir \cup {ContextFile(task, task_id)}
             /\ last' = Op("start", task_id, TRUE, FALSE,
                           [document |-> ContextDocument(sources, task, task_id)], "none")
             /\ UNCHANGED <<old_contexts, horizon, sources, proc>>

\* main() of hdw-task.py on "start <task_id> [--basic]": it calls
\* task_manager.cmd_start(args.task_id, enhanced=not args.basic).  cmd_start
\* has the one parameter task_id, so the call raises TypeError when the
\* arguments are bound, before a statement of cmd_start runs.
MainStart(task_id, basic) ==
    /\ last' = Op("main start", task_id, FALSE, TRUE, [enhanced |-> ~basic], "none")
    /\ UNCHANGED <<tasks_file, phases_dir, contexts_dir, old_contexts, clock, horizon,
                   sources, proc>>

\* how subprocess.run(["git", ...], check=True) can end: both commands run,
\* CalledProcessError, FileNotFoundError
GitOutcomes == {"committed", "failed", "absent"}

\* commit_message = message or f"Complete task: {task_id}"
CommitMessage(task_id, message) ==
    IF message = "" THEN "Complete task: " \o task_id ELSE message

\* a git that runs before the status is saved
WorkingTreeBeforeSave(tf, pd, saved) == [tasks_file |-> tf, phases_dir |-> pd]

\* the backing files as "git add ." finds them: subprocess.run follows the
\* return of tm.save_task_updates
WorkingTreeAtGit(tf, pd, saved) == [tasks_file |-> saved.tf, phases_dir |-> saved.pd]

\* what the git invocation staged: nothing when no git program is found
Staged(git, tree) == IF git = "absent" THEN <<>> ELSE <<tree>>

\* the context documents the cleanup loop of cmd_commit_enhanced can leave: it
\* unlinks the first context_<id>.md that glob("phase*") yields and breaks
ContextsAfterCleanup(ctx, task_id) ==
    LET mine == {c \in ctx : c[2] = task_id}
    IN  IF mine = {} THEN {ctx} ELSE {ctx \ {c} : c \in mine}

\* a commit that runs git and the cleanup without looking for the task first
CmdCommitBlind(task_id, message, git) ==
    LET tasks == LoadTasks(tasks_file, phases_dir)
        i == FirstIndex(tasks, task_id)
        text == "Task committed: " \o CommitMessage(task_id, message)
        saved == SaveTaskUpdates(tasks_file, phases_dir, task_id,
                                 StatusUpdates(tasks[i], "completed", clock, text))
        tree == WorkingTreeAtGit(tasks_file, phases_dir, saved)
    IN  /\ i # 0 => clock < horizon
        /\ clock' = IF i = 0 THEN clock ELSE clock + 1
        /\ tasks_file' = saved.tf
        /\ phases_dir' = saved.pd
        /\ contexts_dir' \in ContextsAfterCleanup(contexts_dir, task_id)
        /\ old_contexts' = old_contexts \ {task_id}
        /\ last' = Op("commit", task_id, i # 0, FALSE,
                      [message |-> message, staged |-> Staged(git, tree)], git)
        /\ UNCHANGED <<horizon, sources, proc>>

\* cmd_commit_enhanced(tm, task_id, message)
CmdCommit(task_id, message, git) ==
    LET tasks == LoadTasks(tasks_file, phases_dir)
        i == FirstIndex(tasks, task_id)
        task == tasks[i]
        text == "Task committed: " \o CommitMessage(task_id, message)
        saved == SaveTaskUpdates(tasks_file, phases_dir, task_id,
                                 StatusUpdates(task, "completed", clock, text))
    IN  IF i = 0
        THEN /\ last' = Op("commit", task_id, FALSE, FALSE, NoArgs, "none")
             /\ UNCHANGED <<tasks_file, phases_dir, contexts_dir, old_contexts, clock, horizon,
                            sources, proc>>
        ELSE /\ clock < horizon
             /\ clock' = clock + 1
             /\ tasks_file' = saved.tf
             /\ phases_dir' = saved.pd
             /\ contexts_dir' \in ContextsAfterCleanup(contexts_dir, task_id)
             /\ old_contexts' = old_contexts \ {task_id}
             /\ last' = Op("commit", task_id, TRUE, FALSE,
                           [message |-> message,
                            staged |-> Staged(git, WorkingTreeAtGit(tasks_file, phases_dir,
                                                                    saved))],
                           git)
             /\ UNCHANGED <<horizon, sources, proc>>

\* cmd_block_enhanced(tm, task_id, reason)
CmdBlock(task_id, reason) ==
    LET tasks == LoadTasks(tasks_file, phases_dir)
        i == FirstIndex(tasks, task_id)
        task == tasks[i]
        saved == SaveTaskUpdates(tasks_file, phases_dir, task_id,
                                 StatusUpdates(task, "blocked", clock, "Blocked: " \o reason))
    IN  IF i = 0
        THEN /\ last' = Op("block", task_id, FALSE, FALSE, NoArgs, "none")
             /\ UNCHANGED <<tasks_file, phases_dir, contexts_dir, old_contexts, clock, horizon,
                            sources, proc>>
        ELSE /\ clock < horizon
             /\ clock' = clock + 1
             /\ tasks_file' = saved.tf
             /\ phases_dir' = saved.pd
             /\ last' = Op("block", task_id, TRUE, FALSE, [reason |-> reason], "none")
             /\ UNCHANGED <<contexts_dir, old_contexts, horizon, sources, proc>>

\* save_task_updates(task_id, updates) called on its own
CmdSave(task_id, updates) ==
    LET tasks == LoadTasks(tasks_file, phases_dir)
        i == FirstIndex(tasks, task_id)
        saved == SaveTaskUpdates(tasks_file, phases_dir, task_id, updates)
    IN  IF i = 0
        THEN /\ tasks_file' = saved.tf
             /\ phases_dir' = saved.pd
             /\ last' = Op("save", task_id, FALSE, FALSE, NoArgs, "none")
             /\ UNCHANGED <<contexts_dir, old_contexts, clock, horizon, sources, proc>>
        ELSE /\ clock < horizon
             /\ clock' = clock + 1
             /\ tasks_file' = saved.tf
             /\ phases_dir' = saved.pd
             /\ last' = Op("save", task_id, TRUE, FALSE, updates, "none")
             /\ UNCHANGED <<contexts_dir, old_contexts, horizon, sources, proc>>

----------------------------------------------------------------------------
(* add-task, add-phase, edit-task                                          *)

\* The files find_phase_file(tm, phase_id) can return: those that
\* glob(f"phase{phase_id}_*.yml") yields and whose content has that phase id.
\* It returns the first in glob order, which the file system decides.
FindPhaseFile(pd, phase_id) ==
    {n \in DOMAIN pd : NumToken(n) = phase_id /\ pd[n]["phase"]["id"] = phase_id}

\* options tested with "if args.x:" (None and "" leave the field alone)
TruthyOptions == {"description", "output", "tests"}

\* the fields edit_legacy_task and edit_phase_task assign to the record t
EditFields(t, args, ts) ==
    LET given == {k \in DOMAIN args : k \in TruthyOptions => args[k] # ""}
    IN  Update(Update(t, [k \in given |-> args[k]]), [updated |-> ts])

\* an edit that adds the record to the file it did not find it in
EditFirstOrAppend(tasks, id, args, ts) ==
    LET i == FirstIndex(tasks, id)
    IN  IF i = 0 THEN Append(tasks, EditFields([id |-> id], args, ts))
        ELSE [tasks EXCEPT ![i] = EditFields(@, args, ts)]

\* "for i, t in enumerate(...): if t['id'] == args.id: ...; break"
EditFirst(tasks, id, args, ts) ==
    LET i == FirstIndex(tasks, id)
    IN  IF i = 0 THEN tasks ELSE [tasks EXCEPT ![i] = EditFields(@, args, ts)]

\* cmd_edit_task(tm, args)
CmdEditTask(id, args) ==
    LET tasks == LoadTasks(tasks_file, phases_dir)
        i == FirstIndex(tasks, id)
        phase_id == Get(tasks[i], "phase", 0)
    IN  IF i = 0
        THEN /\ last' = Op("edit", id, FALSE, FALSE, NoArgs, "none")
             /\ UNCHANGED <<tasks_file, phases_dir, contexts_dir, old_contexts, clock, horizon,
                            sources, proc>>
        ELSE IF phase_id = 0
        THEN \* edit_legacy_task: open(tm.tasks_file) raises when it is absent
             IF tasks_file = <<>>
             THEN /\ last' = Op("edit", id, TRUE, TRUE, args, "none")
                  /\ UNCHANGED <<tasks_file, phases_dir, contexts_dir, old_contexts,
                                 clock, horizon, sources, proc>>
             ELSE /\ clock < horizon
                  /\ clock' = clock + 1
                  /\ tasks_file' = <<[tasks_file[1] EXCEPT !["tasks"] =
                                         EditFirst(@, id, args, clock)]>>
                  /\ last' = Op("edit", id, TRUE, FALSE, args, "none")
                  /\ UNCHANGED <<phases_dir, contexts_dir, old_contexts, horizon, sources, proc>>
        ELSE \* edit_phase_task
             IF FindPhaseFile(phases_dir, phase_id) = {}
             THEN /\ last' = Op("edit", id, TRUE, FALSE, args, "none")
                  /\ UNCHANGED <<tasks_file, phases_dir, contexts_dir, old_contexts,
                                 clock, horizon, sources, proc>>
             ELSE \E phase_file \in FindPhaseFile(phases_dir, phase_id) :
                  /\ clock < horizon
                  /\ clock' = clock + 1
                  /\ phases_dir' = [phases_dir EXCEPT ![phase_file]["tasks"] =
                                        EditFirst(@, id, args, clock)]
                  /\ last' = Op("edit", id, TRUE, FALSE, args, "none")
                  /\ UNCHANGED <<tasks_file, contexts_dir, old_contexts, horizon, sources, proc>>

\* an add-task that does not look for the id in the merged collection
CmdAddTaskUnchecked(id, phase, description) ==
    /\ FindPhaseFile(phases_dir, phase) # {}
    /\ \E phase_file \in FindPhaseFile(phases_dir, phase) :
          /\ clock < horizon
          /\ clock' = clock + 1
          /\ phases_dir' = [phases_dir EXCEPT ![phase_file]["tasks"] =
                                Append(@, [id |-> id, description |-> description,
                                           status |-> "pending"])]
          /\ last' = Op("add-task", id, FALSE, FALSE,
                        [phase |-> phase, description |-> description], "none")
          /\ UNCHANGED <<tasks_file, contexts_dir, old_contexts, horizon, sources, proc>>

\* new_task of cmd_add_task, with no optional field given
NewTask(id, description) == [id |-> id, description |-> description, status |-> "pending"]

\* cmd_add_task(tm, args)
CmdAddTask(id, phase, description) ==
    LET tasks == LoadTasks(tasks_file, phases_dir)
        args == [phase |-> phase, description |-> description]
    IN  IF FirstIndex(tasks, id) # 0 \/ FindPhaseFile(phases_dir, phase) = {}
        THEN /\ last' = Op("add-task", id, FirstIndex(tasks, id) # 0, FALSE, NoArgs, "none")
             /\ UNCHANGED <<tasks_file, phases_dir, contexts_dir, old_contexts, clock, horizon,
                            sources, proc>>
        ELSE \E phase_file \in FindPhaseFile(phases_dir, phase) :
             /\ clock < horizon
             /\ clock' = clock + 1
             /\ phases_dir' = [phases_dir EXCEPT ![phase_file]["tasks"] =
                                   Append(@, NewTask(id, description))]
             /\ last' = Op("add-task", id, FALSE, FALSE, args, "none")
             /\ UNCHANGED <<tasks_file, contexts_dir, old_contexts, horizon, sources, proc>>

PhaseNames == {"Build"}

\* args.name.lower().replace(" ", "_").replace("-", "_")
SafeName(name) == IF name = "Setup" THEN "setup" ELSE "build"

\* cmd_add_phase(tm, args)
CmdAddPhase(id, name, description) ==
    LET phase_filename == PhaseFileName(id, SafeName(name))
        phase_data == [phase |-> [id |-> id, name |-> name, description |-> description],
                       tasks |-> <<>>]
        args == [name |-> name, description |-> description]
    IN  IF FindPhaseFile(phases_dir, id) # {}
        THEN /\ last' = Op("add-phase", ToString(id), TRUE, FALSE, NoArgs, "none")
             /\ UNCHANGED <<tasks_file, phases_dir, contexts_dir, old_contexts, clock, horizon,
                            sources, proc>>
        ELSE /\ clock < horizon
             /\ clock' = clock + 1
             /\ phases_dir' = [n \in DOMAIN phases_dir \cup {phase_filename} |->
                                  IF n = phase_filename THEN phase_data ELSE phases_dir[n]]
             /\ last' = Op("add-phase", ToString(id), FALSE, FALSE, args, "none")
             /\ UNCHANGED <<tasks_file, contexts_dir, old_contexts, horizon, sources, proc>>

----------------------------------------------------------------------------
(* The single-operator system: one command at a time                       *)

InitTask(id) == [id |-> id, description |-> "d1", status |-> "pending"]

Phase1File == PhaseFileName(1, "setup")

Phase2File == PhaseFileName(2, "build")

PhaseData(id, name, tasks) ==
    [phase |-> [id |-> id, name |-> name, description |-> "about " \o name], tasks |-> tasks]

\* t1 lies in tasks.yaml (with no phase tag, or tagged phase 2) or in the
\* phase 1 file; t2, which has a note, lies nowhere, in the phase 1 file or in
\* the phase 2 file
InitFiles(h1, h2) ==
    /\ tasks_file = IF h1 = "legacy" THEN <<[tasks |-> <<InitTask("t1")>>]>>
                    ELSE IF h1 = "tagged"
                    THEN <<[tasks |-> <<Update(InitTask("t1"), [phase |-> 2])>>]>>
                    ELSE <<>>
    /\ phases_dir =
         LET two == Update(InitTask("t2"), [notes |-> <<Note(0, "imported")>>])
             one == (IF h1 = "phase1" THEN <<InitTask("t1")>> ELSE <<>>)
                    \o (IF h2 = "phase1" THEN <<two>> ELSE <<>>)
         IN  IF h2 = "phase2"
             THEN (Phase1File :> PhaseData(1, "Setup", one))
                  @@ (Phase2File :> PhaseData(2, "Build", <<two>>))
             ELSE (Phase1File :> PhaseData(1, "Setup", one))

Init ==
    /\ \E h1 \in {"legacy", "tagged", "phase1"}, h2 \in {"none", "phase1", "phase2"} :
          InitFiles(h1, h2)
    /\ contexts_dir = {}
    /\ old_contexts = {"t1"}
    /\ clock = 0
    /\ horizon = MaxClock
    /\ last = Op("init", "", FALSE, FALSE, NoArgs, "none")
    /\ proc = NoProc
    /\ sources = NoSources

\* --message and how git ends: the default message with each outcome, and a
\* given message
CommitInputs == {<<"", "committed">>, <<"", "failed">>, <<"", "absent">>,
                 <<"fix it", "committed">>}

Reasons == {"waiting"}

SaveUpdates == {[status |-> "completed"], [description |-> "d3"], [phase |-> 2]}

EditArgs == {[description |-> "d2", context |-> <<[path |-> "README.md"]>>]}

Start == \E id \in TaskIds : CmdStart(id)

Commit == \E id \in TaskIds, c \in CommitInputs : CmdCommit(id, c[1], c[2])

Block == \E id \in TaskIds, r \in Reasons : CmdBlock(id, r)

Save == \E id \in TaskIds, u \in SaveUpdates : CmdSave(id, u)

EditTask == \E id \in TaskIds, a \in EditArgs : CmdEditTask(id, a)

AddTask == \E id \in TaskIds, p \in Range(PhaseIds) : CmdAddTask(id, p, "d1")

AddPhase == \E id \in Range(PhaseIds), n \in PhaseNames : CmdAddPhase(id, n, "about " \o n)

Next == Start \/ Commit \/ Block \/ Save \/ EditTask \/ AddTask \/ AddPhase

Spec == Init /\ [][Next]_vars

----------------------------------------------------------------------------
(* The lifecycle of the task t1, followed for MaxDeep operations           *)

InitDeep ==
    /\ \E h1 \in {"legacy", "tagged", "phase1"} : InitFiles(h1, "phase1")
    /\ contexts_dir = {}
    /\ old_contexts = {"t1"}
    /\ clock = 0
    /\ horizon = MaxDeep
    /\ last = Op("init", "", FALSE, FALSE, NoArgs, "none")
    /\ proc = NoProc
    /\ sources = NoSources

StartDeep == CmdStart("t1")

CommitDeep == \E git \in GitOutcomes : CmdCommit("t1", "", git)

BlockDeep == \E r \in Reasons : CmdBlock("t1", r)

SaveDeep == \E u \in SaveUpdates : CmdSave("t1", u)

EditDeep == \E a \in EditArgs : CmdEditTask("t1", a)

NextDeep == StartDeep \/ CommitDeep \/ BlockDeep \/ SaveDeep \/ EditDeep

SpecDeep == InitDeep /\ [][NextDeep]_vars

----------------------------------------------------------------------------
(* The commands on a phases directory as a user can have arranged it       *)

\* a run of the commands on such a directory holds at most MaxStore operations
\* that write a file
MaxStore == 2

\* the files of InitFiles, or t2 in a copy of the phase 1 file that was saved
\* under the name of phase 2 with the id left at 1
StoreFiles(h1, h2) ==
    IF h2 = "copied"
    THEN /\ tasks_file = IF h1 = "legacy" THEN <<[tasks |-> <<InitTask("t1")>>]>> ELSE <<>>
         /\ phases_dir =
               (Phase1File :>
                   PhaseData(1, "Setup", IF h1 = "phase1" THEN <<InitTask("t1")>> ELSE <<>>))
               @@ (Phase2File :>
                      PhaseData(1, "Setup",
                                <<Update(InitTask("t2"), [notes |-> <<Note(0, "imported")>>])>>))
    ELSE InitFiles(h1, h2)

InitStore ==
    /\ \E h1 \in {"legacy", "phase1"}, h2 \in {"none", "phase1", "phase2", "copied"} :
          StoreFiles(h1, h2)
    /\ contexts_dir = {}
    /\ old_contexts = {}
    /\ clock = 0
    /\ horizon = MaxStore
    /\ last = Op("init", "", FALSE, FALSE, NoArgs, "none")
    /\ proc = NoProc
    /\ sources = NoSources

\* the commit command with the default message and a git that runs
CommitStore == \E id \in TaskIds : CmdCommit(id, "", "committed")

NextStore == Start \/ CommitStore \/ Block \/ EditTask \/ AddTask \/ AddPhase

SpecStore == InitStore /\ [][NextStore]_vars

----------------------------------------------------------------------------
(* The lifecycle commands as main() of hdw-task.py dispatches them         *)

\* a run of the command line holds at most MaxCli commands that write a file
MaxCli == 1

InitCli ==
    /\ \E h1 \in {"legacy", "tagged", "phase1"}, h2 \in {"none", "phase1", "phase2"} :
          InitFiles(h1, h2)
    /\ contexts_dir = {}
    /\ old_contexts = {}
    /\ clock = 0
    /\ horizon = MaxCli
    /\ last = Op("init", "", FALSE, FALSE, NoArgs, "none")
    /\ proc = NoProc
    /\ sources = NoSources

\* "start": task_manager.cmd_start(args.task_id, enhanced=not args.basic)
CliStart == \E id \in TaskIds, basic \in BOOLEAN : MainStart(id, basic)

\* "commit", "block", "edit-task" call cmd_commit_enhanced, cmd_block_enhanced
\* and cmd_edit_task
NextCli == CliStart \/ Commit \/ Block \/ EditTask

SpecCli == InitCli /\ [][NextCli]_vars

----------------------------------------------------------------------------
(* Two processes that each call save_task_updates once, with no lock       *)
(* between them.  A call reads the merged view (taken as one step), reads  *)
(* the owning file again and writes it; the other process may run between  *)
(* any two of these steps.                                                 *)

ConcUpdates == {[status |-> "completed"], [description |-> "d3"]}

InitConc ==
    /\ \E h1 \in {"legacy", "phase1"} : InitFiles(h1, "phase1")
    /\ contexts_dir = {}
    /\ old_contexts = {}
    /\ clock = 0
    /\ horizon = 0
    /\ last = Op("init", "", FALSE, FALSE, NoArgs, "none")
    /\ proc = NoProc
    /\ sources = NoSources

\* tasks_data = self.load_tasks(); the loop to the first task with the id;
\* task.update(updates)
SaveLoad(p, task_id, updates) ==
    LET tasks_data == LoadTasks(tasks_file, phases_dir)
        i == FirstIndex(tasks_data, task_id)
    IN  /\ proc[p].pc = "idle"
        /\ proc' = [proc EXCEPT ![p] =
                       IF i = 0
                       THEN [pc |-> "done", task_id |-> task_id, updates |-> updates,
                             found |-> FALSE]
                       ELSE [pc |-> "loaded", task_id |-> task_id, updates |-> updates,
                             found |-> TRUE, tasks_data |-> tasks_data,
                             task |-> Update(tasks_data[i], updates)]]
        /\ UNCHANGED <<tasks_file, phases_dir, contexts_dir, old_contexts, clock, horizon, sources,
                       last>>

\* "with open(phase_file, 'r')" of _update_phase_file, or
\* "with open(self.tasks_file, 'r')" of _update_legacy_tasks
SaveRead(p) ==
    LET task == proc[p].task
    IN  /\ proc[p].pc = "loaded"
        /\ proc' = [proc EXCEPT ![p] =
                       [pc |-> "read",
                        data |-> IF HasPhaseFile(task) THEN phases_dir[task["phase_file"]]
                                 ELSE tasks_file[1]] @@ @]
        /\ UNCHANGED <<tasks_file, phases_dir, contexts_dir, old_contexts, clock, horizon, sources,
                       last>>

\* a write that applies the updates to the record read in the second read
SaveWriteMerging(p) ==
    LET task == proc[p].task
        task_id == proc[p].task_id
        tasks == proc[p].data["tasks"]
        fresh == Update(tasks[FirstIndex(tasks, task_id)], proc[p].updates)
    IN  /\ proc[p].pc = "read"
        /\ IF HasPhaseFile(task)
           THEN /\ phases_dir' = [phases_dir EXCEPT ![task["phase_file"]] =
                                      UpdatePhaseFile(proc[p].data, task_id, fresh)]
                /\ UNCHANGED tasks_file
           ELSE /\ tasks_file' = <<UpdateLegacyTasks(proc[p].data, task_id, fresh)>>
                /\ UNCHANGED phases_dir
        /\ proc' = [proc EXCEPT ![p] = [pc |-> "done"] @@ @]
        /\ last' = Op("write", task_id, TRUE, FALSE, [proc |-> p], "none")
        /\ UNCHANGED <<contexts_dir, old_contexts, clock, horizon, sources>>

\* a write that takes the other records of a phase file from the merged view
SaveWriteFromView(p) ==
    LET task == proc[p].task
        task_id == proc[p].task_id
        mine == SelectSeq(proc[p].tasks_data,
                          LAMBDA t : HasPhaseFile(t) /\ t["phase_file"] = task["phase_file"])
        view == [proc[p].data EXCEPT
                    !["tasks"] = [i \in DOMAIN mine |-> CleanPhaseTask(mine[i])]]
    IN  /\ proc[p].pc = "read"
        /\ IF HasPhaseFile(task)
           THEN /\ phases_dir' = [phases_dir EXCEPT ![task["phase_file"]] =
                                      UpdatePhaseFile(view, task_id, task)]
                /\ UNCHANGED tasks_file
           ELSE /\ tasks_file' = <<UpdateLegacyTasks(proc[p].data, task_id, task)>>
                /\ UNCHANGED phases_dir
        /\ proc' = [proc EXCEPT ![p] = [pc |-> "done"] @@ @]
        /\ last' = Op("write", task_id, TRUE, FALSE, [proc |-> p], "none")
        /\ UNCHANGED <<contexts_dir, old_contexts, clock, horizon, sources>>

\* the replacement of the record and "with open(..., 'w')"
SaveWrite(p) ==
    LET task == proc[p].task
        task_id == proc[p].task_id
    IN  /\ proc[p].pc = "read"
        /\ IF HasPhaseFile(task)
           THEN /\ phases_dir' = [phases_dir EXCEPT ![task["phase_file"]] =
                                      UpdatePhaseFile(proc[p].data, task_id, task)]
                /\ UNCHANGED tasks_file
           ELSE /\ tasks_file' = <<UpdateLegacyTasks(proc[p].data, task_id, task)>>
                /\ UNCHANGED phases_dir
        /\ proc' = [proc EXCEPT ![p] = [pc |-> "done"] @@ @]
        /\ last' = Op("write", task_id, TRUE, FALSE, [proc |-> p], "none")
        /\ UNCHANGED <<contexts_dir, old_contexts, clock, horizon, sources>>

ConcLoad == \E p \in Procs, id \in TaskIds, u \in ConcUpdates : SaveLoad(p, id, u)

ConcRead == \E p \in Procs : SaveRead(p)

ConcWrite == \E p \in Procs : SaveWrite(p)

NextConc == ConcLoad \/ ConcRead \/ ConcWrite

SpecConc == InitConc /\ [][NextConc]_vars

----------------------------------------------------------------------------
(* The read operations load_tasks, get_phase_progress and get_context,     *)
(* applied to files as a user can have written them                        *)

\* a phase file holds up to MaxTotal tasks
MaxTotal == 50

\* load_tasks is called up to MaxLoads times in a row
MaxLoads == 2

\* status is free text in the YAML files
QueryStatuses ==
    {"pending", "in-progress", "completed", "blocked", "in_progress", "total", "name",
     "review"}

\* a record stored with no status key
NoStatus == "(absent)"

WithStatus(task, status) ==
    IF status = NoStatus THEN Without(task, {"status"}) ELSE [task EXCEPT !["status"] = status]

\* t1 in tasks.yaml or in the phase 1 file, t2 in the phase 1 file, each with a
\* status of the user's choice
StatusFiles(h1, s1, s2) ==
    LET one == WithStatus(InitTask("t1"), s1)
        two == WithStatus(InitTask("t2"), s2)
    IN  /\ tasks_file = IF h1 = "legacy" THEN <<[tasks |-> <<one>>]>> ELSE <<>>
        /\ phases_dir = (Phase1File :>
                            PhaseData(1, "Setup",
                                      (IF h1 = "phase1" THEN <<one>> ELSE <<>>) \o <<two>>))
        /\ sources = NoSources

\* a phase 1 file of total tasks, the first completed of them completed
CountFiles(total, completed) ==
    /\ tasks_file = <<>>
    /\ phases_dir = (Phase1File :>
                        PhaseData(1, "Setup",
                                  [i \in 1..total |->
                                      [id |-> "n" \o ToString(i),
                                       description |-> "d1",
                                       status |-> IF i <= completed THEN "completed"
                                                  ELSE "pending"]]))
    /\ sources = NoSources

\* tasks.yaml is absent, well-formed, unparsable or holds a scalar among its
\* tasks; the phase 1 file is well-formed, unparsable, holds a scalar among its
\* tasks or has a list as its phase id; the phase 2 file is well-formed
QueryFileKinds == {"absent", "good", "unparsable", "scalar", "listid"}

DamagedFiles(legacy, phase1) ==
    LET good == PhaseData(1, "Setup", <<InitTask("t2")>>)
    IN  /\ tasks_file = IF legacy = "absent" THEN <<>>
                        ELSE IF legacy = "good" THEN <<[tasks |-> <<InitTask("t1")>>]>>
                        ELSE IF legacy = "unparsable" THEN <<Unparsable>>
                        ELSE <<[tasks |-> <<InitTask("t1"), Scalar>>]>>
        /\ phases_dir =
              (Phase1File :>
                  IF phase1 = "good" THEN good
                  ELSE IF phase1 = "unparsable" THEN Unparsable
                  ELSE IF phase1 = "scalar"
                  THEN PhaseData(1, "Setup", <<InitTask("t2"), Scalar>>)
                  ELSE [good EXCEPT !["phase"]["id"] = ListId])
              @@ (Phase2File :> PhaseData(2, "Build", <<InitTask("t3")>>))
        /\ sources = NoSources

\* foo.py: a statement, the function bar with a blank line in its body, the
\* function baz
FooLines ==
    <<TextLine("x = 1", 0),
      DefLine("bar", 0), TextLine("return 1", 4), BlankLine, TextLine("# tail of bar", 4),
      DefLine("baz", 0), TextLine("return 2", 4)>>

\* the paths under the project root at which a file with FooLines can lie:
\* the module itself, in src/ or docs/, and a file whose name ends in "#bar"
SourcePaths == {"src/foo.py", "docs/foo.py", "src/foo.py#bar"}

ContextFiles(paths) ==
    /\ tasks_file = <<[tasks |-> <<InitTask("t1")>>]>>
    /\ phases_dir = (Phase1File :> PhaseData(1, "Setup", <<InitTask("t2")>>))
    /\ sources = [path \in paths |-> FooLines]

\* the context lists a task record can give
ContextRefs ==
    {<<[path |-> "foo.py", section |-> "bar"]>>,
     <<[path |-> "foo.py", section |-> "qux"]>>,
     <<[path |-> "foo.py"]>>,
     <<[path |-> "README.md"], [path |-> "foo.py", section |-> "bar"]>>,
     <<[path |-> "README.md"], [path |-> "foo.py"]>>}

InitQuery ==
    /\ \/ \E paths \in SUBSET SourcePaths : ContextFiles(paths)
       \/ \E legacy \in QueryFileKinds \ {"listid"}, phase1 \in QueryFileKinds \ {"absent"} :
             DamagedFiles(legacy, phase1)
       \/ \E h1 \in {"legacy", "phase1"}, s1, s2 \in QueryStatuses \cup {NoStatus} :
             StatusFiles(h1, s1, s2)
       \/ \E total \in 0..MaxTotal : \E completed \in 0..total : CountFiles(total, completed)
    /\ contexts_dir = {}
    /\ old_contexts = {}
    /\ clock = 0
    /\ horizon = 1
    /\ last = Op("init", "", FALSE, FALSE, NoArgs, "none")
    /\ proc = NoProc

\* a load that goes on from the list an earlier call returned
FreshTasksKept(previous) == previous

\* all_tasks = {"tasks": []}: a call starts from an empty list, whatever an
\* earlier call returned
FreshTasks(previous) == <<>>

\* TaskManager.load_tasks(), the nth call in a row.  The result's phases table
\* is taken as empty when the code leaves the key out.
LoadTasksCall ==
    LET again == last.op = "load_tasks"
        nth == IF again THEN last.args["nth"] + 1 ELSE 1
        previous == IF again THEN last.args["result"]["tasks"] ELSE <<>>
    IN  /\ nth <= MaxLoads
        /\ last' = Op("load_tasks", "", TRUE, FALSE,
                      [nth |-> nth,
                       result |-> [tasks |-> FreshTasks(previous)
                                             \o LoadTasks(tasks_file, phases_dir),
                                   phases |-> LoadPhases(phases_dir)]],
                      "none")
        /\ UNCHANGED <<tasks_file, phases_dir, contexts_dir, old_contexts, clock, horizon,
                       sources, proc>>

\* TaskManager.get_context(context_paths)
GetContextCall ==
    \E context_paths \in ContextRefs :
        /\ last' = Op("get_context", "", TRUE, FALSE,
                      [context_paths |-> context_paths,
                       result |-> GetContext(sources, context_paths)],
                      "none")
        /\ UNCHANGED <<tasks_file, phases_dir, contexts_dir, old_contexts, clock, horizon,
                       sources, proc>>

\* a write between two reads
SaveQuery == CmdSave("t1", [status |-> "completed"])

\* TaskManager.get_phase_progress()
GetPhaseProgressCall ==
    /\ last' = IF ProgressRaises(LoadTasks(tasks_file, phases_dir))
               THEN Op("get_phase_progress", "", TRUE, TRUE, NoArgs, "none")
               ELSE Op("get_phase_progress", "", TRUE, FALSE,
                       [result |-> GetPhaseProgress(tasks_file, phases_dir)], "none")
    /\ UNCHANGED <<tasks_file, phases_dir, contexts_dir, old_contexts, clock, horizon,
                   sources, proc>>

NextQuery == LoadTasksCall \/ GetPhaseProgressCall \/ GetContextCall \/ SaveQuery

SpecQuery == InitQuery /\ [][NextQuery]_vars

----------------------------------------------------------------------------
(* The commands on a project whose files a user has written by hand: two   *)
(* records with one id, or a task with a context list                      *)

\* a run on such a project holds at most MaxProject operations that write a
\* file
MaxProject == 2

\* a second record with the id, told apart by its description
Twin(id) == [id |-> id, description |-> "d0", status |-> "pending"]

\* t1 is stored twice: in tasks.yaml and in the phase 1 file, or in the phase 1
\* file and in the phase 2 file; t2 is stored once, in the phase 1 file
TwinFiles(where) ==
    /\ tasks_file = IF where = "legacy" THEN <<[tasks |-> <<InitTask("t1")>>]>> ELSE <<>>
    /\ phases_dir =
          IF where = "legacy"
          THEN (Phase1File :> PhaseData(1, "Setup", <<InitTask("t2"), Twin("t1")>>))
          ELSE (Phase1File :> PhaseData(1, "Setup", <<InitTask("t2"), InitTask("t1")>>))
               @@ (Phase2File :> PhaseData(2, "Build", <<Twin("t1")>>))
    /\ sources = NoSources

\* t1 of tasks.yaml names the context list; foo.py lies at the paths
ContextTaskFiles(context, paths) ==
    /\ tasks_file = <<[tasks |-> <<Update(InitTask("t1"), [context |-> context])>>]>>
    /\ phases_dir = (Phase1File :> PhaseData(1, "Setup", <<InitTask("t2")>>))
    /\ sources = [path \in paths |-> FooLines]

InitProject ==
    /\ \/ \E where \in {"legacy", "phases"} : TwinFiles(where)
       \/ \E context \in ContextRefs, paths \in {{}, {"src/foo.py"}} :
             ContextTaskFiles(context, paths)
    /\ contexts_dir = {}
    /\ old_contexts = {}
    /\ clock = 0
    /\ horizon = MaxProject
    /\ last = Op("init", "", FALSE, FALSE, NoArgs, "none")
    /\ proc = NoProc

NextProject == LoadTasksCall \/ Save \/ Start \/ Commit \/ Block \/ EditTask

SpecProject == InitProject /\ [][NextProject]_vars

----------------------------------------------------------------------------
(* Properties of load_tasks, save_task_updates and get_phase_progress      *)

RECURSIVE SumLen(_, _)
SumLen(pd, names) ==
    IF names = {} THEN 0
    ELSE LET n == CHOOSE x \in names : TRUE
         IN  Len(pd[n]["tasks"]) + SumLen(pd, names \ {n})

LegacyTasks == IF tasks_file = <<>> THEN <<>> ELSE tasks_file[1]["tasks"]

\* C1: load_tasks() returns as many tasks as the legacy file and the phase
\* files hold together, every returned task carries a phase id, and a legacy
\* task stored with no phase tag is returned with phase 0.
C1_LoadCountsAndStamps ==
    LET tasks == LoadTasks(tasks_file, phases_dir)
    IN  /\ Len(tasks) = Len(LegacyTasks) + SumLen(phases_dir, DOMAIN phases_dir)
        /\ \A i \in DOMAIN tasks : "phase" \in DOMAIN tasks[i]
        /\ \A i \in DOMAIN LegacyTasks :
              "phase" \notin DOMAIN LegacyTasks[i] => tasks[i]["phase"] = 0

\* a command has loaded an untagged legacy task next to two phase files, one of
\* which holds a task
C1_Witness ==
    /\ last.op = "start" /\ last.found
    /\ LegacyTasks # <<>>
    /\ "phase" \notin DOMAIN LegacyTasks[1]
    /\ Cardinality(DOMAIN phases_dir) = 2
    /\ \E n \in DOMAIN phases_dir : phases_dir[n]["tasks"] # <<>>
    /\ Len(LoadTasks(tasks_file, phases_dir)) = 2

\* the tasks of the merged view that come from the phase file of tasks[i],
\* as indices
SameFile(tasks, i) ==
    {j \in DOMAIN tasks : HasPhaseFile(tasks[j])
                          /\ tasks[j]["phase_file"] = tasks[i]["phase_file"]}

\* save_task_updates(id, updates) has just run on a phase-owned task whose id
\* is unique, and a reload shows that task with the keys of updates replaced
\* and the other tasks of its file as they were
RoundTrip(restricted) ==
    LET tasks == LoadTasks(tasks_file, phases_dir)
        after == LoadTasks(tasks_file', phases_dir')
        i == FirstIndex(tasks, last'.id)
        updates == last'.args
    IN  (/\ last'.op = "save" /\ last'.found
         /\ HasPhaseFile(tasks[i])
         /\ Cardinality({j \in DOMAIN tasks : tasks[j]["id"] = last'.id}) = 1
         /\ restricted => DOMAIN updates \cap StampKeys = {})
        => /\ DOMAIN after = DOMAIN tasks
           /\ after[i] = Update(tasks[i], updates)
           /\ \A j \in SameFile(tasks, i) \ {i} : after[j] = tasks[j]
           /\ SameFile(after, i) = SameFile(tasks, i)

\* C2 as claimed: for a phase-owned task with a unique id,
\* save_task_updates(id, updates) followed by load_tasks() yields the task with
\* exactly the keys of updates replaced by the new values, every other field
\* and every other task of the phase file unchanged, in the same order.
C2_RoundTripAnyUpdates == [][RoundTrip(FALSE)]_vars

\* C2 amended: the same, for updates that name none of the keys phase,
\* phase_name and phase_file, which load_tasks computes and the write strips.
C2_RoundTrip == [][RoundTrip(TRUE)]_vars

\* a description was saved to one of the two tasks of a phase file
C2_Witness ==
    /\ last.op = "save" /\ last.found
    /\ DOMAIN last.args = {"description"}
    /\ \E n \in DOMAIN phases_dir :
          LET tasks == phases_dir[n]["tasks"]
          IN  /\ Len(tasks) = 2
              /\ \E i, j \in DOMAIN tasks :
                    /\ tasks[i]["id"] = last.id
                    /\ tasks[i]["description"] = last.args["description"]
                    /\ tasks[j]["id"] # last.id
                    /\ tasks[j]["description"] = "d1"

Recognized == {"pending", "in-progress", "completed", "blocked"}

BucketSum(entry) ==
    entry["completed"] + entry["in_progress"] + entry["pending"] + entry["blocked"]

\* C3: in every entry of get_phase_progress() the four status counts sum to at
\* most total, and to exactly total when every task of the phase has one of
\* the statuses pending, in-progress, completed, blocked.
C3_BucketsSumToTotal ==
    LET progress == GetPhaseProgress(tasks_file, phases_dir)
        tasks == LoadTasks(tasks_file, phases_dir)
    IN  \A id \in DOMAIN progress :
           /\ BucketSum(progress[id]) <= progress[id]["total"]
           /\ (\A i \in DOMAIN tasks :
                  Get(tasks[i], "phase", 0) = id
                  => Get(tasks[i], "status", "pending") \in Recognized)
              => BucketSum(progress[id]) = progress[id]["total"]

----------------------------------------------------------------------------
(* Properties of the lifecycle operations                                  *)

\* the context documents of the task T
Docs(ctx, T) == {c \in ctx : c[2] = T}

\* the stored records in the order load_tasks reads them
RawTasks(tf, pd) ==
    LET names == SortedPhaseFiles(pd)
    IN  (IF tf = <<>> THEN <<>> ELSE tf[1]["tasks"])
        \o Concat([k \in DOMAIN names |-> pd[names[k]]["tasks"]])

C5_CommitRemovesEveryContext ==
    (last.op = "commit" /\ last.found)
    => /\ Docs(contexts_dir, last.id) = {}
       /\ last.id \notin old_contexts

\* C29: after a commit operation on an existing task whose git invocation
\* failed, or that found no git program, the task is stored as completed and
\* no context document of the task is left, in a contexts/phase* directory or
\* in the project root.
C29_FailedGitStillCleansUp ==
    (last.op = "commit" /\ last.found /\ last.git \in {"failed", "absent"})
    => LET raw == RawTasks(tasks_file, phases_dir)
       IN  /\ raw[FirstIndex(raw, last.id)]["status"] = "completed"
           /\ Docs(contexts_dir, last.id) = {}
           /\ last.id \notin old_contexts

\* C6: cmd_start on an existing pending task stores, in the place the record
\* had, status in-progress, the updated timestamp and the earlier notes
\* followed by one note "Task started".
C6_StartUpdatesRecord ==
    [][LET raw == RawTasks(tasks_file, phases_dir)
           i == FirstIndex(raw, last'.id)
           stored == RawTasks(tasks_file', phases_dir')
       IN  (/\ last'.op = "start" /\ last'.found
            /\ Get(raw[i], "status", "pending") = "pending")
           => /\ DOMAIN stored = DOMAIN raw
              /\ stored[i]["id"] = last'.id
              /\ stored[i]["status"] = "in-progress"
              /\ stored[i]["updated"] = clock
              /\ Len(stored[i]["notes"]) = Len(Get(raw[i], "notes", <<>>)) + 1
              /\ SubSeq(stored[i]["notes"], 1, Len(stored[i]["notes"]) - 1)
                    = Get(raw[i], "notes", <<>>)
              /\ stored[i]["notes"][Len(stored[i]["notes"])]["note"] = "Task started"
              /\ stored[i]["notes"][Len(stored[i]["notes"])]["timestamp"] = clock]_vars

\* the pending task t2, which had a note, was started
C6_Witness ==
    /\ last.op = "start" /\ last.found /\ last.id = "t2"
    /\ \E i \in DOMAIN RawTasks(tasks_file, phases_dir) :
          LET t == RawTasks(tasks_file, phases_dir)[i]
          IN  /\ t["id"] = "t2"
              /\ t["status"] = "in-progress"
              /\ Len(t["notes"]) = 2
              /\ t["notes"][1]["note"] = "imported"
              /\ t["notes"][2]["note"] = "Task started"

\* the task ids each backing file holds, in order
FileIds(tf, pd) ==
    [legacy |-> IF tf = <<>> THEN <<>>
                ELSE [i \in DOMAIN tf[1]["tasks"] |-> tf[1]["tasks"][i]["id"]],
     phases |-> [n \in DOMAIN pd |->
                    [i \in DOMAIN pd[n]["tasks"] |-> pd[n]["tasks"][i]["id"]]]]

\* C9: start, commit, block and edit-task leave every task record in the
\* backing file that held it: no file gains or loses a record.
C9_RecordsStayInTheirFile ==
    [][last'.op \in {"start", "commit", "block", "edit"}
       => FileIds(tasks_file', phases_dir') = FileIds(tasks_file, phases_dir)]_vars

\* edit-task ran on the legacy task t1 that is tagged phase 2 while a phase 2
\* file exists: t1 is still in tasks.yaml and not in the phase 2 file
C9_Witness ==
    /\ last.op = "edit" /\ last.found /\ last.id = "t1"
    /\ clock > 0
    /\ Phase2File \in DOMAIN phases_dir
    /\ FileIds(tasks_file, phases_dir).legacy = <<"t1">>
    /\ Get(LegacyTasks[1], "phase", 0) = 2
    /\ "t1" \notin Range(FileIds(tasks_file, phases_dir).phases[Phase2File])

\* C10: no record stored in a phase file has the key phase, phase_name or
\* phase_file, and no record stored in tasks.yaml has phase_name or phase_file.
C10_StampsNeverStored ==
    /\ \A n \in DOMAIN phases_dir : \A i \in DOMAIN phases_dir[n]["tasks"] :
          DOMAIN phases_dir[n]["tasks"][i] \cap StampKeys = {}
    /\ \A i \in DOMAIN LegacyTasks : DOMAIN LegacyTasks[i] \cap LegacyStampKeys = {}

\* save_task_updates was given a phase for a task that a phase file owns, after
\* another write to a phase-owned task
C10_Witness ==
    /\ last.op = "save" /\ last.found
    /\ "phase" \in DOMAIN last.args
    /\ clock = 2
    /\ \E n \in DOMAIN phases_dir : last.id \in Range(FileIds(tasks_file, phases_dir).phases[n])

\* C14: save_task_updates with a task id that the merged collection does not
\* hold raises nothing and leaves tasks.yaml and every phase file as they were.
C14_UnknownIdChangesNothing ==
    [][(last'.op = "save" /\ ~last'.found)
       => /\ ~last'.raised
          /\ tasks_file' = tasks_file
          /\ phases_dir' = phases_dir]_vars

\* save_task_updates was called for t2, which no file holds, after a write to
\* the legacy file
C14_Witness ==
    /\ last.op = "save" /\ ~last.found /\ last.id = "t2"
    /\ FirstIndex(RawTasks(tasks_file, phases_dir), "t2") = 0
    /\ clock > 0
    /\ tasks_file # <<>>

NotesOf(task) == Get(task, "notes", <<>>)

IsPrefix(a, b) == Len(a) <= Len(b) /\ SubSeq(b, 1, Len(a)) = a

\* C19: start, commit, block and edit-task leave the earlier notes of every
\* stored task in place and in order; a commit or block of an existing task
\* adds one note, stamped with the time, at the end of that task's notes, sets
\* its updated timestamp and leaves the notes of the other tasks as they were.
C19_NotesOnlyGrow ==
    [][last'.op \in {"start", "commit", "block", "edit"}
       => LET raw == RawTasks(tasks_file, phases_dir)
              stored == RawTasks(tasks_file', phases_dir')
              i == FirstIndex(raw, last'.id)
          IN  /\ DOMAIN stored = DOMAIN raw
              /\ \A k \in DOMAIN raw : IsPrefix(NotesOf(raw[k]), NotesOf(stored[k]))
              /\ (last'.op \in {"commit", "block"} /\ last'.found)
                 => /\ Len(NotesOf(stored[i])) = Len(NotesOf(raw[i])) + 1
                    /\ NotesOf(stored[i])[Len(NotesOf(stored[i]))]["timestamp"] = clock
                    /\ stored[i]["updated"] = clock
                    /\ \A k \in DOMAIN raw \ {i} : NotesOf(stored[k]) = NotesOf(raw[k])]_vars

\* t2, stored with one note, was started and then committed
C19_Witness ==
    /\ last.op = "commit" /\ last.found /\ last.id = "t2"
    /\ LET t == RawTasks(tasks_file, phases_dir)[
                    FirstIndex(RawTasks(tasks_file, phases_dir), "t2")]
       IN  /\ Len(NotesOf(t)) = 3
           /\ NotesOf(t)[1]["note"] = "imported"
           /\ NotesOf(t)[2]["note"] = "Task started"
           /\ NotesOf(t)[3]["note"] = "Task committed: Complete task: t2"
           /\ t["updated"] = NotesOf(t)[3]["timestamp"]

\* C24: when the commit operation invokes git, the backing files git finds
\* hold the task as completed, with the commit note as its last note and the
\* updated timestamp of that note; a commit of an unknown id invokes no git.
C24_GitRunsAfterTheSave ==
    (last.op = "commit")
    => IF last.found
       THEN last.git \in {"committed", "failed"}
            => LET tree == last.args["staged"][1]
                   raw == RawTasks(tree["tasks_file"], tree["phases_dir"])
                   t == raw[FirstIndex(raw, last.id)]
                   note == NotesOf(t)[Len(NotesOf(t))]
               IN  /\ t["status"] = "completed"
                   /\ note["note"]
                         = "Task committed: " \o CommitMessage(last.id, last.args["message"])
                   /\ t["updated"] = note["timestamp"]
       ELSE last.git = "none"

\* t2 of a phase file was committed with a message of the user and git ran
\* both commands on files that hold it as completed
C24_Witness ==
    /\ last.op = "commit" /\ last.found /\ last.id = "t2"
    /\ last.git = "committed"
    /\ last.args["message"] = "fix it"
    /\ \E n \in DOMAIN last.args["staged"][1]["phases_dir"] :
          \E k \in DOMAIN last.args["staged"][1]["phases_dir"][n]["tasks"] :
             LET t == last.args["staged"][1]["phases_dir"][n]["tasks"][k]
             IN  /\ t["id"] = "t2"
                 /\ t["status"] = "completed"
                 /\ t["notes"][2]["note"] = "Task committed: fix it"

\* C25: edit-task on an existing task, legacy or phase-owned and whatever
\* its phase tag, stores each given field in the task's record in the file
\* that holds it and sets its updated timestamp; the status and the notes of
\* the record and every other record stay as they were.
C25_EditReachesTheRecord ==
    [][(last'.op = "edit" /\ last'.found)
       => LET raw == RawTasks(tasks_file, phases_dir)
              stored == RawTasks(tasks_file', phases_dir')
              i == FirstIndex(raw, last'.id)
          IN  /\ DOMAIN stored = DOMAIN raw
              /\ \A key \in DOMAIN last'.args : stored[i][key] = last'.args[key]
              /\ stored[i]["updated"] = clock
              /\ stored[i]["status"] = raw[i]["status"]
              /\ NotesOf(stored[i]) = NotesOf(raw[i])
              /\ \A k \in DOMAIN raw \ {i} : stored[k] = raw[k]]_vars

----------------------------------------------------------------------------
(* Properties of the stored records                                        *)

\* the task ids that tasks.yaml and the phase files store
StoredIds(tf, pd) == {RawTasks(tf, pd)[i]["id"] : i \in DOMAIN RawTasks(tf, pd)}

\* C16: no start, commit, block, edit-task, add-task or add-phase removes a
\* task record: every task id the backing files store before the operation
\* is stored after it.
C16_NoRecordRemoved ==
    [][StoredIds(tasks_file, phases_dir) \subseteq StoredIds(tasks_file', phases_dir')]_vars

\* no two tasks of the merged collection have the same id
UniqueIds(tf, pd) ==
    \A i, j \in DOMAIN LoadTasks(tf, pd) :
        LoadTasks(tf, pd)[i]["id"] = LoadTasks(tf, pd)[j]["id"] => i = j

\* C17: add-task, add-phase, edit-task, start, commit and block keep the task
\* ids of the merged collection unique, and add-task with an id that the
\* merged collection holds changes no file.
C17_IdsStayUnique ==
    [][/\ UniqueIds(tasks_file, phases_dir) => UniqueIds(tasks_file', phases_dir')
       /\ (last'.op = "add-task" /\ last'.found)
          => (tasks_file' = tasks_file /\ phases_dir' = phases_dir)]_vars

\* add-task was refused for t2, which an earlier add-task had created
C17_Witness ==
    /\ last.op = "add-task" /\ last.found /\ last.id = "t2"
    /\ UniqueIds(tasks_file, phases_dir)
    /\ "notes" \notin DOMAIN
          RawTasks(tasks_file, phases_dir)[FirstIndex(RawTasks(tasks_file, phases_dir), "t2")]

\* C18: no phase file has the phase id 0, whatever operations ran, add-phase
\* among them: phase 0 is the grouping of the legacy tasks only.
C18_NoPhaseZeroFile ==
    \A n \in DOMAIN phases_dir : phases_dir[n]["phase"]["id"] # 0

\* C28: add-phase leaves every phase file that exists as it is: the file it
\* creates did not exist before, and when it reports that the phase exists it
\* changes no file.
C28_AddPhaseKeepsExistingFiles ==
    [][last'.op = "add-phase"
       => /\ \A n \in DOMAIN phases_dir :
                n \in DOMAIN phases_dir' /\ phases_dir'[n] = phases_dir[n]
          /\ tasks_file' = tasks_file
          /\ last'.found => phases_dir' = phases_dir]_vars

\* C30: start, commit, block and edit-task with a task id that no backing
\* file stores raise nothing and change no backing file and no context
\* document, and such a commit invokes no git command.
C30_UnknownIdIsRefused ==
    [][(/\ last'.op \in {"start", "commit", "block", "edit"}
        /\ last'.id \notin StoredIds(tasks_file, phases_dir))
       => /\ ~last'.found /\ ~last'.raised
          /\ tasks_file' = tasks_file
          /\ phases_dir' = phases_dir
          /\ contexts_dir' = contexts_dir
          /\ old_contexts' = old_contexts
          /\ last'.git = "none"]_vars

\* a commit of t2, which no file stores, was refused after t1 was started:
\* the context documents of t1 are in place
C30_Witness ==
    /\ last.op = "commit" /\ ~last.found /\ last.id = "t2"
    /\ "t2" \notin StoredIds(tasks_file, phases_dir)
    /\ Docs(contexts_dir, "t1") # {}
    /\ "t1" \in old_contexts
    /\ clock > 0

----------------------------------------------------------------------------
(* Properties of concurrent save_task_updates calls                        *)

\* the record with the id as the backing files store it now
Stored(task_id) ==
    LET raw == RawTasks(tasks_file, phases_dir)
    IN  raw[FirstIndex(raw, task_id)]

Wrote(p) == proc[p].pc = "done" /\ proc[p].found

\* p and q both completed a save of the same task, p wrote last, and the view
\* p had loaded did not show the value q saved under the key k
Overwrote(p, q, k) ==
    /\ p # q /\ Wrote(p) /\ Wrote(q)
    /\ proc[p].task_id = proc[q].task_id
    /\ last.op = "write" /\ last.args["proc"] = p
    /\ k \in DOMAIN proc[q].updates \ DOMAIN proc[p].updates
    /\ Get(proc[p].task, k, "") # proc[q].updates[k]

\* C7: when two unserialized save_task_updates cycles on the same task both
\* complete and the later writer had loaded its view before the earlier one
\* wrote, the file holds the later writer's update and the earlier writer's
\* update is absent from it.
C7_StaleWriterLosesTheOtherUpdate ==
    \A p, q \in Procs : \A k \in {"status", "description"} :
        Overwrote(p, q, k)
        => /\ Stored(proc[p].task_id)[k] # proc[q].updates[k]
           /\ \A j \in DOMAIN proc[p].updates :
                 Stored(proc[p].task_id)[j] = proc[p].updates[j]

\* both cycles completed on one task and one update is not in the file
C7_Witness ==
    \E p, q \in Procs : \E k \in {"status", "description"} :
        /\ Overwrote(p, q, k)
        /\ Stored(proc[p].task_id)[k] # proc[q].updates[k]

\* the records of the file p wrote, other than the one p updated, are as p
\* read them in its second read
OthersAsRead(p) ==
    LET file == IF HasPhaseFile(proc[p].task) THEN phases_dir[proc[p].task["phase_file"]]
                ELSE tasks_file[1]
    IN  /\ DOMAIN file["tasks"] = DOMAIN proc[p].data["tasks"]
        /\ \A i \in DOMAIN file["tasks"] :
              proc[p].data["tasks"][i]["id"] # proc[p].task_id
              => file["tasks"][i] = proc[p].data["tasks"][i]

\* the second read of p showed a record of another task that differs from
\* the one in the view p had loaded: another writer changed it in between
ChangedBeforeRead(p) ==
    /\ HasPhaseFile(proc[p].task)
    /\ \E i \in DOMAIN proc[p].data["tasks"] :
          LET t == proc[p].data["tasks"][i]
              view == proc[p].tasks_data
          IN  /\ t["id"] # proc[p].task_id
              /\ CleanPhaseTask(view[FirstIndex(view, t["id"])]) # t

\* C8: a change another writer made to a different task of the same file
\* after save_task_updates loaded the merged view and before it read the file
\* again is in the file after save_task_updates writes.
C8_UnrelatedChangeSurvives ==
    \A p \in Procs :
        (Wrote(p) /\ last.op = "write" /\ last.args["proc"] = p) => OthersAsRead(p)

\* p wrote after a second read that showed another writer's change
C8_Witness ==
    \E p \in Procs :
        /\ Wrote(p) /\ last.op = "write" /\ last.args["proc"] = p
        /\ ChangedBeforeRead(p)
        /\ OthersAsRead(p)

----------------------------------------------------------------------------
(* Properties of the read operations                                       *)

\* the tasks of the merged view that carry the phase id
InPhase(tasks, id) == {i \in DOMAIN tasks : Get(tasks[i], "phase", 0) = id}

RECURSIVE SumTotals(_, _)
SumTotals(progress, ids) ==
    IF ids = {} THEN 0
    ELSE LET id == CHOOSE x \in ids : TRUE
         IN  progress[id]["total"] + SumTotals(progress, ids \ {id})

\* C11: get_phase_progress() returns, for any statuses, entries whose totals
\* count each merged task once, in the entry of its phase, so that the totals
\* sum to the number of merged tasks, and whose status counts include no task
\* with a status other than pending, in-progress, completed and blocked.
C11_EachTaskCountedOnce ==
    (last.op = "get_phase_progress" /\ ~last.raised)
    => LET progress == last.args["result"]
           tasks == LoadTasks(tasks_file, phases_dir)
       IN  /\ SumTotals(progress, DOMAIN progress) = Len(tasks)
           /\ \A id \in DOMAIN progress :
                 /\ progress[id]["total"] = Cardinality(InPhase(tasks, id))
                 /\ BucketSum(progress[id])
                       <= Cardinality({i \in InPhase(tasks, id) :
                                          Get(tasks[i], "status", "pending") \in Recognized})

\* C12: in every entry of get_phase_progress() percentage is the whole part
\* of completed * 100 / total when total > 0, and 0 when total = 0.
C12_PercentageIsFloor ==
    (last.op = "get_phase_progress" /\ ~last.raised)
    => \A id \in DOMAIN last.args["result"] :
          LET entry == last.args["result"][id]
          IN  entry["percentage"] = IF entry["total"] > 0
                                    THEN (entry["completed"] * 100) \div entry["total"]
                                    ELSE 0

WellFormedPhase(data) ==
    /\ Parses(data)
    /\ \A i \in DOMAIN data["tasks"] : IsMapping(data["tasks"][i])
    /\ ~Unhashable(data["phase"]["id"])

WellFormedLegacy(data) ==
    /\ Parses(data)
    /\ \A i \in DOMAIN data["tasks"] : IsMapping(data["tasks"][i])

\* C15: load_tasks() raises nothing; a legacy or phase file that is unreadable
\* or malformed contributes no task to the result, an absent file none either,
\* and every task of every well-formed file is in the result.
C15_LoadSkipsDamagedFiles ==
    (last.op = "load_tasks")
    => LET tasks == last.args["result"]["tasks"]
       IN  /\ ~last.raised
           /\ \A i \in DOMAIN tasks :
                 IF HasPhaseFile(tasks[i])
                 THEN WellFormedPhase(phases_dir[tasks[i]["phase_file"]])
                 ELSE tasks_file # <<>> /\ WellFormedLegacy(tasks_file[1])
           /\ \A n \in DOMAIN phases_dir :
                 WellFormedPhase(phases_dir[n])
                 => \A j \in DOMAIN phases_dir[n]["tasks"] :
                       \E i \in DOMAIN tasks :
                          tasks[i] = PhaseStamp(phases_dir[n]["tasks"][j], n, phases_dir[n])
           /\ (tasks_file # <<>> /\ WellFormedLegacy(tasks_file[1]))
              => \A j \in DOMAIN tasks_file[1]["tasks"] :
                    \E i \in DOMAIN tasks : tasks[i] = LegacyStamp(tasks_file[1]["tasks"][j])

\* the files with the name path that a reference can resolve to
FilesAt(path) == {p \in {path, "docs/" \o path, "src/" \o path} : p \in DOMAIN sources}

\* the lines from the first line that defines name up to the next def or
\* class statement at column 0 or the next blank line
SectionAsDescribed(lines, name) ==
    LET from == CHOOSE k \in DOMAIN lines :
                    /\ Mentions(lines[k], name)
                    /\ \A j \in 1..(k - 1) : ~Mentions(lines[j], name)
        stops == {k \in (from + 1)..Len(lines) :
                     StartsDefinition(lines[k]) \/ lines[k] = BlankLine}
        to == IF stops = {} THEN Len(lines)
              ELSE (CHOOSE k \in stops : \A j \in stops : k <= j) - 1
    IN  SubSeq(lines, from, to)

\* C20: for a reference path#name whose file at path exists and holds a line
\* "def name" or "class name", get_context returns under that reference the
\* lines from the first such definition up to the next top-level definition
\* or blank line, and not the whole file.
C20_SectionOfExistingFile ==
    (last.op = "get_context")
    => \A k \in DOMAIN last.args["context_paths"] :
          LET ref == last.args["context_paths"][k]
              block == last.args["result"][k]
          IN  (/\ HasSection(ref)
               /\ \E p \in FilesAt(ref["path"]) :
                     \E i \in DOMAIN sources[p] : Mentions(sources[p][i], ref["section"]))
              => /\ block["found"]
                 /\ \E p \in FilesAt(ref["path"]) :
                       block["content"] = SectionAsDescribed(sources[p], ref["section"])

----------------------------------------------------------------------------
(* Properties of the commands on hand-written projects                     *)

\* the number of records of the sequence that have the id
CountId(tasks, id) == Cardinality({k \in DOMAIN tasks : tasks[k]["id"] = id})

ChangedFiles(tf, pd, tf2, pd2) ==
    (IF tf2 # tf THEN {"tasks.yaml"} ELSE {})
    \cup {n \in DOMAIN pd \cup DOMAIN pd2 :
             n \notin DOMAIN pd \/ n \notin DOMAIN pd2 \/ pd2[n] # pd[n]}

\* the backing file that holds the first record with the id in merged order
OwningFile(tf, pd, id) ==
    LET ids == FileIds(tf, pd)
        names == SortedPhaseFiles(pd)
        holding == {k \in DOMAIN names : id \in Range(ids.phases[names[k]])}
    IN  IF id \in Range(ids.legacy) THEN "tasks.yaml"
        ELSE names[CHOOSE k \in holding : \A j \in holding : k <= j]

Unresolvable(src, ref) == \A k \in DOMAIN Locations(ref) : Locations(ref)[k] \notin DOMAIN src

\* C23: cmd_start on a task whose context list holds a reference that resolves
\* to no file raises nothing: the document holds one entry for each reference,
\* in the order of the list, the unresolvable ones marked not found and the
\* others with content; the context document is written and the task is
\* stored as in-progress.
C23_MissingContextDoesNotAbortStart ==
    [][(last'.op = "start" /\ last'.found)
       => LET tasks == LoadTasks(tasks_file, phases_dir)
              task == tasks[FirstIndex(tasks, last'.id)]
              refs == Get(task, "context", <<>>)
              blocks == last'.args["document"]["context"]
              raw == RawTasks(tasks_file', phases_dir')
          IN  /\ ~last'.raised
              /\ DOMAIN blocks = DOMAIN refs
              /\ \A k \in DOMAIN refs :
                    /\ blocks[k]["path"] = RefText(refs[k])
                    /\ blocks[k]["found"] = ~Unresolvable(sources, refs[k])
                    /\ blocks[k]["found"] => blocks[k]["content"] # <<>>
              /\ ContextFile(task, last'.id) \in contexts_dir'
              /\ raw[FirstIndex(raw, last'.id)]["status"] = "in-progress"]_vars

\* t1 was started with the context list README.md, foo.py while only foo.py
\* exists: README.md is marked not found and foo.py follows with its lines
C23_Witness ==
    /\ last.op = "start" /\ last.found /\ last.id = "t1"
    /\ LET blocks == last.args["document"]["context"]
       IN  /\ Len(blocks) = 2
           /\ blocks[1] = [path |-> "README.md", found |-> FALSE]
           /\ blocks[2] = [path |-> "foo.py", found |-> TRUE, content |-> FooLines]
    /\ <<0, "t1">> \in contexts_dir
    /\ tasks_file[1]["tasks"][1]["status"] = "in-progress"

\* C26: the start command of the command line, given the id of a stored
\* task, raises nothing and leaves the task stored as in-progress with the
\* note "Task started" as its last note and its context document written.
C26_CliStartStartsTheTask ==
    (last.op = "main start" /\ last.id \in StoredIds(tasks_file, phases_dir))
    => LET tasks == LoadTasks(tasks_file, phases_dir)
           task == tasks[FirstIndex(tasks, last.id)]
       IN  /\ ~last.raised
           /\ task["status"] = "in-progress"
           /\ NotesOf(task) # <<>>
           /\ NotesOf(task)[Len(NotesOf(task))]["note"] = "Task started"
           /\ ContextFile(task, last.id) \in contexts_dir

\* C27: save_task_updates on a task of tasks.yaml that is stored with no phase
\* tag changes, in tasks.yaml, the keys named in updates and nothing else: the
\* record is stored with no phase tag afterwards unless updates names one.
C27_UntaggedLegacyStaysUntagged ==
    [][LET raw == RawTasks(tasks_file, phases_dir)
           stored == RawTasks(tasks_file', phases_dir')
           i == FirstIndex(raw, last'.id)
       IN  (/\ last'.op = "save" /\ last'.found
            /\ OwningFile(tasks_file, phases_dir, last'.id) = "tasks.yaml"
            /\ "phase" \notin DOMAIN raw[i])
           => /\ DOMAIN stored = DOMAIN raw
              /\ stored[i] = Update(raw[i], last'.args)
              /\ "phase" \notin DOMAIN last'.args => "phase" \notin DOMAIN stored[i]
              /\ \A k \in DOMAIN raw \ {i} : stored[k] = raw[k]]_vars

====
